---- MODULE Spec2Model ----
(***************************************************************************)
(* mmse-go: the Frame codec of pkg/mmse (Encode, Decode, the int32, size   *)
(* prefix and header I/O) and the pack / unpack wrappers of the mmse       *)
(* command, as state machines.                                             *)
(*                                                                         *)
(* Bytes are the integers 0..255, byte strings are sequences of bytes, and *)
(* file names are sequences of one-character strings.  Go's 0-based slice  *)
(* expressions s[lo:hi] are written Slice(s, lo, hi).                      *)
(***************************************************************************)
EXTENDS Integers, Sequences, FiniteSets, TLC

(***************************************************************************)
(* Bounds of the model.                                                    *)
(***************************************************************************)
\* A payload is the concatenation of at most MaxChunks chunks of Chunks.
MaxChunks == 3
\* Calls made on the frame under test in one behaviour of Spec.
MaxCalls == 4
\* A file name is the concatenation of at most MaxParts parts of NameParts.
MaxParts == 3
\* Bytes that follow the header in an input of CheckHeader.
MaxTrail == 2
\* Runs of the mmse command in one behaviour of CliSpec.
MaxRuns == 2

(***************************************************************************)
(* Byte strings.                                                           *)
(***************************************************************************)
Slice(s, lo, hi) == SubSeq(s, lo + 1, hi)

Zeros(n) == [i \in 1..n |-> 0]

\* copy(dst[at:at+len(bs)], bs), the caller having checked the range.
Place(dst, at, bs) ==
    [i \in 1..Len(dst) |->
        IF i > at /\ i <= at + Len(bs) THEN bs[i - at] ELSE dst[i]]

RECURSIVE Concat(_)
Concat(ss) == IF ss = <<>> THEN <<>> ELSE Head(ss) \o Concat(Tail(ss))

RECURSIVE SeqsUpTo(_, _)
SeqsUpTo(S, n) ==
    IF n = 0 THEN {<<>>}
    ELSE LET shorter == SeqsUpTo(S, n - 1)
         IN  shorter \cup {Append(s, x) : s \in shorter, x \in S}

\* {"a":1} and {"b":2}, the 7-byte documents of the end-to-end example.
JsonA == <<123, 34, 97, 34, 58, 49, 125>>
JsonB == <<123, 34, 98, 34, 58, 50, 125>>
\* Eight bytes 'A': three of them are the shortest run the block compressor
\* shrinks.
RunA == <<65, 65, 65, 65, 65, 65, 65, 65>>
\* A single zero byte.
Nul == <<0>>

Chunks == {JsonA, JsonB, RunA, Nul}

Payloads == {Concat(cs) : cs \in SeqsUpTo(Chunks, MaxChunks)}

(***************************************************************************)
(* The LZ4 block codec, github.com/pierrec/lz4 v2.6.1 (block.go,           *)
(* decode_other.go).  The hash table of CompressBlock is modelled as a map *)
(* from the hashed 6-byte window itself, that is, without hash collisions; *)
(* a fresh table holds 0 everywhere, as make([]int, 1<<16) does.           *)
(***************************************************************************)
minMatch == 4
winSize == 65536
mfLimit == 14
adaptSkip == 128

CompressBlockBound(n) == n + (n \div 255) + 16

\* The bytes that follow a token whose length nibble is 15.
LenExt(l) ==
    IF l < 15 THEN <<>>
    ELSE [i \in 1..(((l - 15) \div 255) + 1) |->
            IF i <= (l - 15) \div 255 THEN 255 ELSE (l - 15) % 255]

Nibble(l) == IF l < 15 THEN l ELSE 15

HtGet(ht, k) == IF k \in DOMAIN ht THEN ht[k] ELSE 0

HtPut(ht, k, v) == [x \in (DOMAIN ht) \cup {k} |-> IF x = k THEN v ELSE ht[x]]

Key6(src, i) == Slice(src, i, i + 6)

\* offset > 0, inside the window, and the 4 bytes at si and at ref agree.
IsMatch(src, si, ref) ==
    /\ si - ref > 0
    /\ si - ref < winSize
    /\ Slice(src, si, si + 4) = Slice(src, ref, ref + 4)

\* Extend the match backwards over the pending literals: the new si.
RECURSIVE ExtendBack(_, _, _, _)
ExtendBack(src, si, tOff, lLen) ==
    IF lLen > 0 /\ tOff >= 0 /\ src[si] = src[tOff + 1]
    THEN ExtendBack(src, si - 1, tOff - 1, lLen - 1)
    ELSE si

\* The number of equal leading bytes of the 8-byte words at a and at b.
EqualPrefix(src, a, b) ==
    CHOOSE k \in 0..8 :
        /\ \A j \in 0..(k - 1) : src[a + j + 1] = src[b + j + 1]
        /\ k = 8 \/ src[a + k + 1] # src[b + k + 1]

\* Extend the match forwards by batches of 8 bytes: the new si.
RECURSIVE ExtendFwd(_, _, _, _)
ExtendFwd(src, si, offset, sn) ==
    IF si + 8 >= sn THEN si
    ELSE IF EqualPrefix(src, si, si - offset) = 8
    THEN ExtendFwd(src, si + 8, offset, sn)
    ELSE si + EqualPrefix(src, si, si - offset)

\* One sequence up to its offset: token, literal length, literals, offset.
SeqHead(src, anchor, lLen, offset, mLen) ==
    <<Nibble(lLen) * 16 + Nibble(mLen)>> \o LenExt(lLen)
        \o Slice(src, anchor, anchor + lLen)
        \o <<offset % 256, offset \div 256>>

\* The state of CompressBlock's main loop is st = [si, di, anchor, ht, dst,
\* ok]; ok = FALSE stands for the recovered index-out-of-range panic.
RECURSIVE CompressLoop(_, _, _)

\* The sequence is written (head, then the match length bytes tail) and the
\* search goes on at sie, the end of the match.
WriteSeq(src, sn, st, ht, sie, head, tail) ==
    IF \/ st.di + Len(head) >= Len(st.dst)
       \/ st.di + Len(head) + Len(tail) > Len(st.dst)
    THEN [st EXCEPT !.ok = FALSE]
    ELSE CompressLoop(src, sn,
            [si |-> sie, di |-> st.di + Len(head) + Len(tail), anchor |-> sie,
             ht |-> IF sie >= sn THEN ht
                    ELSE HtPut(ht, Key6(src, sie - 2), sie - 2),
             dst |-> Place(Place(st.dst, st.di, head), st.di + Len(head), tail),
             ok |-> TRUE])

\* A match from sib (extended backwards) to sie (extended forwards).
MatchSpan(src, sn, st, offset, ht, sib, sie) ==
    WriteSeq(src, sn, st, ht, sie,
             SeqHead(src, st.anchor, sib - st.anchor, offset,
                     sie - (sib + minMatch)),
             LenExt(sie - (sib + minMatch)))

\* Match found at si with the given offset.
MatchFound(src, sn, st, si, offset, ht) ==
    MatchSpan(src, sn, st, offset, ht,
              ExtendBack(src, si, si - offset - 1, si - st.anchor),
              ExtendFwd(src, si + 4, offset, sn))

\* The third probe, at si + 2; without a match the search skips ahead.
Probe3(src, sn, st, ref, ht) ==
    IF IsMatch(src, st.si + 2, ref)
    THEN MatchFound(src, sn, st, st.si + 2, st.si + 2 - ref, ht)
    ELSE CompressLoop(src, sn,
            [st EXCEPT !.si = st.si + 2 + 2
                                + ((st.si + 2 - st.anchor) \div adaptSkip),
                       !.ht = ht])

\* The probes at si and si + 1, with the table entries read before si and
\* si + 1 were stored in it (ht is the table after both stores).
Probe12(src, sn, st, ref, ref2, ht) ==
    IF IsMatch(src, st.si, ref)
    THEN MatchFound(src, sn, st, st.si, st.si - ref, ht)
    ELSE IF IsMatch(src, st.si + 1, ref2)
    THEN MatchFound(src, sn, st, st.si + 1, st.si + 1 - ref2, ht)
    ELSE Probe3(src, sn, st, HtGet(ht, Key6(src, st.si + 2)),
                HtPut(ht, Key6(src, st.si + 2), st.si + 2))

CompressLoop(src, sn, st) ==
    IF ~st.ok \/ st.si >= sn THEN st
    ELSE Probe12(src, sn, st,
                 HtGet(st.ht, Key6(src, st.si)),
                 HtGet(st.ht, Key6(src, st.si + 1)),
                 HtPut(HtPut(st.ht, Key6(src, st.si), st.si),
                       Key6(src, st.si + 1), st.si + 1))

\* The last literals: last is their token and length bytes.
LastLiterals(src, dn, st, last) ==
    IF ~st.ok THEN [n |-> 0, err |-> TRUE, dst |-> st.dst]
    ELSE IF dn < CompressBlockBound(Len(src)) /\ st.anchor = 0
    THEN [n |-> 0, err |-> FALSE, dst |-> st.dst]
    ELSE IF st.di + Len(last) > dn
    THEN [n |-> 0, err |-> TRUE, dst |-> st.dst]
    ELSE IF dn < CompressBlockBound(Len(src)) /\ st.di + Len(last) >= st.anchor
    THEN [n |-> 0, err |-> FALSE, dst |-> Place(st.dst, st.di, last)]
    ELSE IF st.di + Len(last) + Len(src) - st.anchor > dn
    THEN [n |-> 0, err |-> TRUE, dst |-> Place(st.dst, st.di, last)]
    ELSE [n |-> st.di + Len(last) + Len(src) - st.anchor, err |-> FALSE,
          dst |-> Place(st.dst, st.di,
                        last \o Slice(src, st.anchor, Len(src)))]

CompressEnd(src, dn, st) ==
    LastLiterals(src, dn, st,
                 <<Nibble(Len(src) - st.anchor) * 16>>
                    \o LenExt(Len(src) - st.anchor))

\* lz4.CompressBlock(src, dst, make([]int, 1<<16)) with dst = make([]byte, dn):
\* [n, err, dst].  n = 0 with err = FALSE is "not compressible".
CompressBlock(src, dn) ==
    CompressEnd(src, dn,
        CompressLoop(src, Len(src) - mfLimit,
            [si |-> 0, di |-> 0, anchor |-> 0, ht |-> <<>>,
             dst |-> Zeros(dn), ok |-> TRUE]))

\* A length whose nibble is 15: [len, si, ok], reading the bytes at si.
RECURSIVE ReadLen(_, _, _)
ReadLen(src, si, acc) ==
    IF si >= Len(src) THEN [len |-> acc, si |-> si, ok |-> FALSE]
    ELSE IF src[si + 1] = 255 THEN ReadLen(src, si + 1, acc + 255)
    ELSE [len |-> acc + src[si + 1], si |-> si + 1, ok |-> TRUE]

\* The length a token nibble gives: [len, si, ok].
TokenLen(src, si, nib) ==
    IF nib = 15 THEN ReadLen(src, si, 15)
    ELSE [len |-> nib, si |-> si, ok |-> TRUE]

\* dst[di:di+mLen] copied from offset bytes back, byte by byte (the match may
\* overlap its own output).
RECURSIVE CopyMatch(_, _, _, _)
CopyMatch(dst, di, offset, mLen) ==
    IF mLen = 0 THEN dst
    ELSE CopyMatch([dst EXCEPT ![di + 1] = dst[di - offset + 1]],
                   di + 1, offset, mLen - 1)

\* decodeBlock(dst, src) from src[si] and dst[di] on: the number of bytes
\* written, or -2 on error.
RECURSIVE DecodeLoop(_, _, _, _)

\* The match of a sequence: offset from the 2 bytes at si, length ml.
DecodeMatch(src, si, dst, di, offset, ml) ==
    IF \/ offset = 0
       \/ ~ml.ok
       \/ offset > di
       \/ di + ml.len + minMatch > Len(dst)
    THEN [n |-> -2, dst |-> dst]
    ELSE DecodeLoop(src, ml.si, CopyMatch(dst, di, offset, ml.len + minMatch),
                    di + ml.len + minMatch)

\* After the literals of the token b: the end of the block, or a match.
DecodeAfterLiterals(src, si, dst, di, b) ==
    IF si >= Len(src) THEN [n |-> di, dst |-> dst]
    ELSE IF si + 2 > Len(src) THEN [n |-> -2, dst |-> dst]
    ELSE DecodeMatch(src, si, dst, di, src[si + 1] + 256 * src[si + 2],
                     TokenLen(src, si + 2, b % 16))

\* The literals of the token b, ll their length.
DecodeLiterals(src, dst, di, b, ll) ==
    IF ~ll.ok \/ ll.si + ll.len > Len(src) \/ di + ll.len > Len(dst)
    THEN [n |-> -2, dst |-> dst]
    ELSE DecodeAfterLiterals(src, ll.si + ll.len,
            Place(dst, di, Slice(src, ll.si, ll.si + ll.len)),
            di + ll.len, b)

DecodeLoop(src, si, dst, di) ==
    IF si >= Len(src) THEN [n |-> -2, dst |-> dst]
    ELSE DecodeLiterals(src, dst, di, src[si + 1],
                        TokenLen(src, si + 1, src[si + 1] \div 16))

DecodeEnd(r) ==
    IF r.n >= 0 THEN [n |-> r.n, err |-> FALSE, dst |-> r.dst]
    ELSE [n |-> 0, err |-> TRUE, dst |-> r.dst]

\* lz4.UncompressBlock(src, dst) with dst = make([]byte, dn): [n, err, dst].
UncompressBlock(src, dn) ==
    IF Len(src) = 0 THEN [n |-> 0, err |-> FALSE, dst |-> Zeros(dn)]
    ELSE DecodeEnd(DecodeLoop(src, 0, Zeros(dn), 0))

(***************************************************************************)
(* pkg/mmse: constants, int32 I/O, Frame.                                  *)
(***************************************************************************)
Magic == 1932684653
Ver == 4

\* binary.Write(w, binary.BigEndian, v): the high byte first.
Int32BytesBE(v) ==
    <<(v \div 16777216) % 256, (v % 16777216) \div 65536,
      ((v % 16777216) \div 256) % 256, (v % 16777216) % 256>>

\* binary.Write(w, binary.LittleEndian, v): the 4 bytes of the int32 v.
Int32Bytes(v) ==
    LET lo == v % 16777216
    IN  <<lo % 256, (lo \div 256) % 256, lo \div 65536, (v \div 16777216) % 256>>

\* The int32 that 4 little-endian bytes hold.
Int32Of(b) ==
    b[1] + 256 * b[2] + 65536 * b[3]
        + 16777216 * (IF b[4] >= 128 THEN b[4] - 256 ELSE b[4])

\* A reader is the bytes of its source and the position reached.
\* ReadInt32(r): [v, err, pos]; a short read consumes what is left.
ReadInt32(data, pos) ==
    IF pos + 4 <= Len(data)
    THEN [v |-> Int32Of(Slice(data, pos, pos + 4)), err |-> "", pos |-> pos + 4]
    ELSE [v |-> 0,
          err |-> IF pos >= Len(data) THEN "EOF" ELSE "unexpected EOF",
          pos |-> Len(data)]

\* WriteInt32(w, v) on a writer that accepts every byte: the bytes appended.
WriteInt32(out, v) == out \o Int32Bytes(v)

ErrNotEncoded == "Frame is not encoded"
ErrAlreadyEncoded == "Frame is already encoded"
ErrInvalidSource == "lz4: invalid source or destination buffer too short"
ErrLength == "expecting SizeRaw bytes, read another number"
PanicMakeSlice == "panic: makeslice: len out of range"

\* new(Frame)
NewFrame == [SizeRaw |-> 0, SizeCom |-> 0, isEncoded |-> FALSE, buf |-> <<>>]

\* Frame.Decode with f.Reset(); f.Write(b) ahead of the length test.
DecodeWriteFirst(fr) ==
    IF ~fr.isEncoded THEN [f |-> fr, err |-> ErrNotEncoded]
    ELSE IF fr.SizeRaw < 0 THEN [f |-> fr, err |-> PanicMakeSlice]
    ELSE LET r == UncompressBlock(fr.buf, fr.SizeRaw)
         IN  IF r.err THEN [f |-> fr, err |-> ErrInvalidSource]
             ELSE IF r.n # fr.SizeRaw
             THEN [f |-> [fr EXCEPT !.buf = r.dst], err |-> ErrLength]
             ELSE [f |-> [fr EXCEPT !.buf = r.dst, !.isEncoded = FALSE],
                   err |-> ""]

\* Frame.Decode: [f, err].
DecodeNoLengthCheck(fr) ==
    IF ~fr.isEncoded THEN [f |-> fr, err |-> ErrNotEncoded]
    ELSE IF fr.SizeRaw < 0 THEN [f |-> fr, err |-> PanicMakeSlice]
    ELSE LET r == UncompressBlock(fr.buf, fr.SizeRaw)
         IN  IF r.err THEN [f |-> fr, err |-> ErrInvalidSource]
             ELSE [f |-> [fr EXCEPT !.buf = r.dst, !.isEncoded = FALSE],
                   err |-> ""]

Decode(fr) ==
    IF ~fr.isEncoded THEN [f |-> fr, err |-> ErrNotEncoded]
    ELSE IF fr.SizeRaw < 0 THEN [f |-> fr, err |-> PanicMakeSlice]
    ELSE LET r == UncompressBlock(fr.buf, fr.SizeRaw)
         IN  IF r.err THEN [f |-> fr, err |-> ErrInvalidSource]
             ELSE IF r.n # fr.SizeRaw THEN [f |-> fr, err |-> ErrLength]
             ELSE [f |-> [fr EXCEPT !.buf = r.dst, !.isEncoded = FALSE],
                   err |-> ""]

\* Frame.Encode without f.Truncate(int(f.SizeCom)).
EncodeNoTruncate(fr) ==
    IF fr.isEncoded THEN [f |-> fr, err |-> ErrAlreadyEncoded]
    ELSE IF fr.SizeRaw < 0 THEN [f |-> fr, err |-> PanicMakeSlice]
    ELSE LET r  == CompressBlock(fr.buf, fr.SizeRaw)
             sc == IF r.n = 0 THEN fr.SizeRaw ELSE r.n
         IN  IF r.err THEN [f |-> fr, err |-> ErrInvalidSource]
             ELSE [f |-> [fr EXCEPT !.SizeCom = sc, !.isEncoded = TRUE,
                                    !.buf = r.dst],
                   err |-> ""]

\* Frame.Encode: [f, err].
EncodeNoStateCheck(fr) ==
    IF fr.SizeRaw < 0 THEN [f |-> fr, err |-> PanicMakeSlice]
    ELSE LET r  == CompressBlock(fr.buf, fr.SizeRaw)
             sc == IF r.n = 0 THEN fr.SizeRaw ELSE r.n
         IN  IF r.err THEN [f |-> fr, err |-> ErrInvalidSource]
             ELSE [f |-> [fr EXCEPT !.SizeCom = sc, !.isEncoded = TRUE,
                                    !.buf = Slice(r.dst, 0, sc)],
                   err |-> ""]

Encode(fr) ==
    IF fr.isEncoded THEN [f |-> fr, err |-> ErrAlreadyEncoded]
    ELSE IF fr.SizeRaw < 0 THEN [f |-> fr, err |-> PanicMakeSlice]
    ELSE LET r  == CompressBlock(fr.buf, fr.SizeRaw)
             sc == IF r.n = 0 THEN fr.SizeRaw ELSE r.n
         IN  IF r.err THEN [f |-> fr, err |-> ErrInvalidSource]
             ELSE [f |-> [fr EXCEPT !.SizeCom = sc, !.isEncoded = TRUE,
                                    !.buf = Slice(r.dst, 0, sc)],
                   err |-> ""]

\* ReadSizeToFrame(r): [f, err, pos]; err is the panic of a failed read.
ReadSizeToFrame(data, pos) ==
    LET enc == ReadInt32(data, pos)
        unc == ReadInt32(data, enc.pos)
    IN  IF enc.err # ""
        THEN [f |-> NewFrame, err |-> "panic: Unable to read encoded size",
              pos |-> enc.pos]
        ELSE IF unc.err # ""
        THEN [f |-> NewFrame, err |-> "panic: Unable to read unencoded size",
              pos |-> unc.pos]
        ELSE [f |-> [NewFrame EXCEPT !.SizeCom = enc.v, !.SizeRaw = unc.v,
                                     !.isEncoded = TRUE],
              err |-> "", pos |-> unc.pos]

\* ReadJSONToFrame(fn) once os.Open(fn) has succeeded on a file holding
\* content: [f, err].
ReadJSONToFrame(content) ==
    LET e == Encode([NewFrame EXCEPT !.buf = content, !.SizeRaw = Len(content)])
    IN  IF e.err # "" THEN [f |-> e.f, err |-> "panic: Unable to compress Frame"]
        ELSE [f |-> [e.f EXCEPT !.isEncoded = FALSE], err |-> ""]

\* CheckHeader(r): [err, pos]; err is the panic of the failed check.
CheckHeaderMagicOnly(data, pos) ==
    IF ReadInt32(data, pos).err # ""
    THEN [err |-> "panic: Failed magic number check",
          pos |-> ReadInt32(data, pos).pos]
    ELSE IF ReadInt32(data, pos).v # Magic
    THEN [err |-> "panic: Incorrect magic number", pos |-> pos + 4]
    ELSE IF ReadInt32(data, pos + 4).err # ""
    THEN [err |-> "panic: Failed version number check",
          pos |-> ReadInt32(data, pos + 4).pos]
    ELSE [err |-> "", pos |-> pos + 8]

CheckHeader(data, pos) ==
    IF ReadInt32(data, pos).err # ""
    THEN [err |-> "panic: Failed magic number check",
          pos |-> ReadInt32(data, pos).pos]
    ELSE IF ReadInt32(data, pos).v # Magic
    THEN [err |-> "panic: Incorrect magic number", pos |-> pos + 4]
    ELSE IF ReadInt32(data, pos + 4).err # ""
    THEN [err |-> "panic: Failed version number check",
          pos |-> ReadInt32(data, pos + 4).pos]
    ELSE IF ReadInt32(data, pos + 4).v # Ver
    THEN [err |-> "panic: Incorrect version number", pos |-> pos + 8]
    ELSE [err |-> "", pos |-> pos + 8]

\* WriteHeader(w), WriteSize(w, f) on a writer that accepts every byte.
WriteHeader(out) == WriteInt32(WriteInt32(out, Magic), Ver)

\* WriteSize with the raw size written first.
WriteSizeSwapped(out, fr) == WriteInt32(WriteInt32(out, fr.SizeRaw), fr.SizeCom)

WriteSize(out, fr) == WriteInt32(WriteInt32(out, fr.SizeCom), fr.SizeRaw)

\* io.Copy in the place of io.CopyN: the frame takes all that is left to read.
CopyNAll(content, pos, fr) ==
    [f |-> [fr EXCEPT !.buf = @ \o Slice(content, pos, Len(content))],
     err |-> "", pos |-> Len(content)]

\* io.CopyN(f, r, int64(f.SizeCom)) from position pos of a file: [f, err, pos].
CopyN(content, pos, fr) ==
    IF fr.SizeCom <= 0 THEN [f |-> fr, err |-> "", pos |-> pos]
    ELSE IF pos + fr.SizeCom <= Len(content)
    THEN [f |-> [fr EXCEPT !.buf = @ \o Slice(content, pos, pos + fr.SizeCom)],
          err |-> "", pos |-> pos + fr.SizeCom]
    ELSE [f |-> [fr EXCEPT !.buf = @ \o Slice(content, pos, Len(content))],
          err |-> "panic: Unable to read file", pos |-> Len(content)]

\* The rest of WriteJSON once io.CopyN returned c.
WriteJSONDecode(c, d) ==
    IF c.err # "" THEN c
    ELSE IF d.err = PanicMakeSlice THEN [f |-> d.f, err |-> d.err, pos |-> c.pos]
    ELSE IF d.err # ""
    THEN [f |-> d.f, err |-> "panic: Unable to decode", pos |-> c.pos]
    ELSE [f |-> d.f, err |-> "", pos |-> c.pos]

\* WriteJSON(fn, r, f) up to ioutil.WriteFile: [f, err, pos]; when err is ""
\* the bytes of f.buf are what WriteFile writes to fn.
WriteJSON(content, pos, fr) ==
    WriteJSONDecode(CopyN(content, pos, fr), Decode(CopyN(content, pos, fr).f))

\* WriteFrame writing f.Bytes(), which leaves the buffer as it was.
WriteFrameKeep(out, fr) == [out |-> out \o fr.buf, f |-> fr]

\* WriteFrame(w, f): io.Copy(w, f) appends the buffer to w and drains it.
WriteFrame(out, fr) == [out |-> out \o fr.buf, f |-> [fr EXCEPT !.buf = <<>>]]

(***************************************************************************)
(* The mmse command: file names.                                           *)
(***************************************************************************)
DotSav == <<".", "s", "a", "v">>
DotJson == <<".", "j", "s", "o", "n">>
InfoSuffix == <<"_", "i", "n", "f", "o">> \o DotJson
DataSuffix == <<"_", "d", "a", "t", "a">> \o DotJson

\* The loop of split: i runs from len(fn) - 1 down to 0.
RECURSIVE splitFrom(_, _)
splitFrom(fn, i) ==
    IF i < 0 THEN fn
    ELSE IF fn[i + 1] = "."
    THEN IF Slice(fn, i, Len(fn)) = DotSav \/ Slice(fn, i, Len(fn)) = DotJson
         THEN Slice(fn, 0, i)
         ELSE fn
    ELSE splitFrom(fn, i - 1)

\* path.Ext's rule, which split modifies: whatever the last extension, it goes.
splitAnyExt(fn) ==
    IF \E i \in 1..Len(fn) : fn[i] = "."
    THEN SubSeq(fn, 1, (CHOOSE i \in 1..Len(fn) :
                            fn[i] = "." /\ \A j \in (i + 1)..Len(fn) : fn[j] # ".") - 1)
    ELSE fn

split(fn) == splitFrom(fn, Len(fn) - 1)

\* path.Base: trailing slashes go, then everything up to the last slash.
RECURSIVE StripSlashes(_)
StripSlashes(fn) ==
    IF Len(fn) > 0 /\ fn[Len(fn)] = "/"
    THEN StripSlashes(Slice(fn, 0, Len(fn) - 1))
    ELSE fn

RECURSIVE AfterLastSlash(_, _)
AfterLastSlash(fn, i) ==
    IF i < 0 THEN fn
    ELSE IF fn[i + 1] = "/" THEN Slice(fn, i + 1, Len(fn))
    ELSE AfterLastSlash(fn, i - 1)

Base(fn) ==
    IF fn = <<>> THEN <<".">>
    ELSE IF StripSlashes(fn) = <<>> THEN <<"/">>
    ELSE AfterLastSlash(StripSlashes(fn), Len(StripSlashes(fn)) - 1)

\* The two files unpack(fn) writes, and the file pack(in, dn) creates.
UnpackNames(fn) ==
    <<split(Base(fn)) \o InfoSuffix, split(Base(fn)) \o DataSuffix>>

PackNameFromInfo(in, dn) == split(Base(in)) \o DotSav

PackName(in, dn) == split(Base(dn)) \o DotSav

(***************************************************************************)
(* Spec: one Frame and the calls made on it.                               *)
(***************************************************************************)
\* A valid LZ4 block of p, compressed into a buffer with room to spare.
BlockOf(p) ==
    LET c == CompressBlock(p, CompressBlockBound(Len(p)))
    IN  Slice(c.dst, 0, c.n)

\* The invalid block of TestFrameDecodeCorruptedData.
Corrupt == <<1, 2, 3, 4>>

\* The block of every payload, computed once.
BlockTable == [p \in Payloads |-> BlockOf(p)]

Blocks == {BlockTable[p] : p \in Payloads \ {<<>>}} \cup {Corrupt} \cup Payloads

\* The declared raw size of a hand-made size prefix is off by one of these.
Deltas == {-1, 0, 1}

VARIABLES
    f,      \* the frame under test
    prev,   \* the frame as the last call found it
    ops,    \* the calls made so far, oldest first
    errs,   \* what each call returned: "" or the error or panic
    raw     \* the raw content the frame was set up with

frameVars == <<f, prev, ops, errs, raw>>

VARIABLES
    arg,    \* the input of the function under test: a name or a byte string
    ret     \* what the function returned, or "none" before the call

funVars == <<arg, ret>>

VARIABLES
    fs,       \* the files on disk: name -> bytes
    args,     \* os.Args[1:] of the running command
    pc,       \* where the command is: "idle", "main", a step, "defer", "exit"
    status,   \* "running", "ok", or the panic that ended the run
    bn,       \* the base name split(path.Base(..)) returned
    file,     \* the name of the file behind f, the *os.File of unpack and pack
    rd,       \* the read position of f
    info,     \* the info Frame
    data,     \* the data Frame
    opened,   \* the handles not closed: "f", "r_info", "r_data"
    printed,  \* the usage text went to standard output
    runs,     \* the runs that have ended
    packed,   \* what each container a finished pack left was packed from
    fs0       \* the files as the running command found them

procVars == <<args, pc, status, bn, file, rd, info, data, opened, printed>>

cliVars == <<fs, procVars, runs, packed, fs0>>

vars == <<frameVars, funVars, cliVars>>

FrameInit ==
    /\ f = NewFrame
    /\ prev = NewFrame
    /\ ops = <<>>
    /\ errs = <<>>
    /\ raw = <<>>

FunInit ==
    /\ arg = <<>>
    /\ ret = [op |-> "none"]

\* No command is running.
ProcIdle ==
    /\ args = <<>>
    /\ pc = "idle"
    /\ status = ""
    /\ bn = <<>>
    /\ file = <<>>
    /\ rd = 0
    /\ info = NewFrame
    /\ data = NewFrame
    /\ opened = {}
    /\ printed = FALSE

CliIdle ==
    /\ fs = <<>>
    /\ ProcIdle
    /\ runs = 0
    /\ packed = {}
    /\ fs0 = <<>>

Init == FrameInit /\ FunInit /\ CliIdle

LastOp == IF ops = <<>> THEN "" ELSE ops[Len(ops)]

LastErr == IF errs = <<>> THEN "" ELSE errs[Len(errs)]

\* The call op, made on the frame f, left the frame g and returned e.
Called(op, g, e) ==
    /\ f' = g
    /\ prev' = f
    /\ ops' = Append(ops, op)
    /\ errs' = Append(errs, e)
    /\ UNCHANGED <<funVars, cliVars>>

\* frame.Write(B); frame.SizeRaw = int32(len(B))
SetUpRaw ==
    /\ ops = <<>>
    /\ \E B \in Payloads :
        /\ Called("SetUpRaw", [f EXCEPT !.buf = B, !.SizeRaw = Len(B)], "")
        /\ raw' = B

CallEncode ==
    /\ Len(ops) < MaxCalls
    /\ Called("Encode", Encode(f).f, Encode(f).err)
    /\ UNCHANGED raw

CallDecode ==
    /\ Len(ops) < MaxCalls
    /\ Called("Decode", Decode(f).f, Decode(f).err)
    /\ UNCHANGED raw

\* A size prefix made by hand (the block length of one payload, the raw
\* length of it off by a delta), possibly cut short.
HandPrefix(p, d, cut) ==
    Slice(WriteInt32(WriteInt32(<<>>, Len(BlockTable[p])), Len(p) + d), 0, cut)

CallReadSizeToFrame ==
    /\ ops = <<>>
    /\ \E p \in Payloads, d \in Deltas, cut \in 0..8 :
        Called("ReadSizeToFrame",
               IF ReadSizeToFrame(HandPrefix(p, d, cut), 0).err = ""
               THEN ReadSizeToFrame(HandPrefix(p, d, cut), 0).f ELSE f,
               ReadSizeToFrame(HandPrefix(p, d, cut), 0).err)
    /\ UNCHANGED raw

\* frame.Write(D) of SizeCom bytes, as io.CopyN(f, r, SizeCom) does.
FrameWrite ==
    /\ LastOp = "ReadSizeToFrame"
    /\ LastErr = ""
    /\ \E D \in Blocks :
        /\ Len(D) = f.SizeCom
        /\ Called("Write", [f EXCEPT !.buf = @ \o D], "")
    /\ UNCHANGED raw

CallReadJSONToFrame ==
    /\ ops = <<>>
    /\ \E B \in Payloads :
        /\ Called("ReadJSONToFrame", ReadJSONToFrame(B).f, ReadJSONToFrame(B).err)
        /\ raw' = B

Next ==
    \/ SetUpRaw
    \/ CallEncode
    \/ CallDecode
    \/ CallReadSizeToFrame
    \/ FrameWrite
    \/ CallReadJSONToFrame

Spec == Init /\ [][Next]_vars

(***************************************************************************)
(* Claims about one Frame, checked under Spec.                             *)
(***************************************************************************)
\* C1: for every byte sequence B, Encode of the raw frame of B succeeds, the
\* Decode that follows succeeds, and afterwards the buffer is B and SizeRaw
\* is len(B).
C1_RoundTrip ==
    /\ ops = <<"SetUpRaw", "Encode">> => LastErr = ""
    /\ ops = <<"SetUpRaw", "Encode", "Decode">> =>
        /\ LastErr = ""
        /\ f.buf = raw
        /\ f.SizeRaw = Len(raw)

\* C2: when the block compressor returns 0 (not compressible), the buffer
\* after Encode holds the original raw bytes unmodified and SizeCom equals
\* SizeRaw.
C2_IncompressibleFallback ==
    (/\ LastOp = "Encode"
     /\ LastErr = ""
     /\ CompressBlock(prev.buf, prev.SizeRaw).n = 0)
    => /\ f.buf = prev.buf
       /\ f.SizeCom = f.SizeRaw

\* The call at position i was an Encode that encoded the frame, and no call
\* after it and before position n decoded it.
EncodedSince(i, n) ==
    /\ ops[i] = "Encode"
    /\ errs[i] = ""
    /\ \A j \in (i + 1)..(n - 1) : ops[j] \in {"Encode", "Decode"} /\ errs[j] # ""

\* C8: Decode of a frame that is not encoded (fresh, or already decoded)
\* fails with "Frame is not encoded"; Encode of a frame that an earlier Encode
\* encoded fails with "Frame is already encoded"; the second of two
\* consecutive Decodes and of two consecutive Encodes fails.
C8_StateViolation ==
    \A n \in 1..Len(ops) :
        /\ (ops[n] = "Decode" /\ \A i \in 1..(n - 1) : ops[i] = "SetUpRaw")
            => errs[n] = ErrNotEncoded
        /\ (n > 1 /\ ops[n] = "Decode" /\ ops[n - 1] = "Decode")
            => /\ errs[n] # ""
               /\ errs[n - 1] = "" => errs[n] = ErrNotEncoded
        /\ (n > 1 /\ ops[n] = "Encode" /\ ops[n - 1] = "Encode")
            => errs[n] # ""
        /\ (ops[n] = "Encode" /\ \E i \in 1..(n - 1) : EncodedSince(i, n))
            => errs[n] = ErrAlreadyEncoded

\* C8 witness: an Encode that encoded the frame, then an Encode refused.
C8_Witness ==
    /\ Len(ops) = 3
    /\ ops = <<"SetUpRaw", "Encode", "Encode">>
    /\ raw # <<>>
    /\ errs[2] = ""
    /\ errs[3] = ErrAlreadyEncoded

\* C9: the frame ReadJSONToFrame returns holds compressed bytes and is in the
\* encoded state: Encode of it fails with "Frame is already encoded" and
\* Decode of it is permitted.
C9_LoaderReturnsEncoded ==
    /\ (/\ LastOp = "ReadJSONToFrame"
        /\ LastErr = ""
        /\ CompressBlock(raw, Len(raw)).n > 0) => f.isEncoded
    /\ (/\ Len(ops) = 2
        /\ ops[1] = "ReadJSONToFrame"
        /\ errs[1] = ""
        /\ CompressBlock(raw, Len(raw)).n > 0) =>
        /\ ops[2] = "Encode" => errs[2] = ErrAlreadyEncoded
        /\ ops[2] = "Decode" => errs[2] # ErrNotEncoded

\* C10: Decode of an encoded frame returns an error whenever the decompressor
\* reports one or produces a number of bytes other than SizeRaw, and then
\* leaves the frame as it was; a Decode that succeeds decompressed exactly
\* SizeRaw bytes.
C10_StrictLengthDecode ==
    (LastOp = "Decode" /\ prev.isEncoded /\ prev.SizeRaw >= 0) =>
        /\ (\/ UncompressBlock(prev.buf, prev.SizeRaw).err
            \/ UncompressBlock(prev.buf, prev.SizeRaw).n # prev.SizeRaw)
            => (LastErr \in {ErrInvalidSource, ErrLength} /\ f = prev)
        /\ (\E p \in Payloads : prev.buf = BlockTable[p] /\ prev.SizeRaw # Len(p))
            => LastErr # ""
        /\ LastErr = "" =>
            /\ UncompressBlock(prev.buf, prev.SizeRaw).n = f.SizeRaw
            /\ Len(f.buf) = f.SizeRaw
            /\ Len(f.buf) = f.SizeRaw

\* C10 witness: a valid block whose declared SizeRaw is one more than what it
\* decompresses to, refused by Decode.
C10_Witness ==
    /\ LastOp = "Decode"
    /\ prev.isEncoded
    /\ prev.buf # <<>>
    /\ ~UncompressBlock(prev.buf, prev.SizeRaw).err
    /\ UncompressBlock(prev.buf, prev.SizeRaw).n = prev.SizeRaw - 1
    /\ LastErr = ErrLength

\* C16: after a successful Encode of a frame whose buffer is its raw content
\* and whose SizeRaw is that content's length, SizeRaw is unchanged, the
\* buffer is SizeCom bytes long, 0 <= SizeCom <= SizeRaw, and SizeCom > 0
\* unless the content is empty.
C16_EncodePostState ==
    (/\ LastOp = "Encode"
     /\ LastErr = ""
     /\ prev.SizeRaw = Len(prev.buf))
    => /\ f.SizeRaw = prev.SizeRaw
       /\ Len(f.buf) = f.SizeCom
       /\ 0 <= f.SizeCom
       /\ f.SizeCom <= f.SizeRaw
       /\ prev.buf # <<>> => f.SizeCom > 0

\* C16 witness: an Encode that made the content shorter.
C16_Witness ==
    /\ ops = <<"SetUpRaw", "Encode">>
    /\ LastErr = ""
    /\ raw # <<>>
    /\ f.SizeRaw = Len(raw)
    /\ f.SizeCom < f.SizeRaw
    /\ Len(f.buf) = f.SizeCom

\* The errors Encode and Decode return.
FrameErrors == {ErrNotEncoded, ErrAlreadyEncoded, ErrInvalidSource, ErrLength}

\* C19: when Encode or Decode returns an error (wrong state, codec error,
\* decoded length other than SizeRaw) the buffer, SizeRaw, SizeCom and the
\* encoded flag are what they were before the call, and the same call made
\* again returns the same error.
C19_FailureLeavesFrame ==
    /\ (LastOp \in {"Encode", "Decode"} /\ LastErr \in FrameErrors) => f = prev
    /\ \A n \in 2..Len(ops) :
        (/\ ops[n] \in {"Encode", "Decode"}
         /\ ops[n - 1] = ops[n]
         /\ errs[n - 1] \in FrameErrors) => errs[n] = errs[n - 1]

\* C19 witness: a Decode refused for its length, twice, the block still
\* buffered.
C19_Witness ==
    /\ Len(ops) >= 2
    /\ LastOp = "Decode"
    /\ ops[Len(ops) - 1] = "Decode"
    /\ LastErr = ErrLength
    /\ errs[Len(ops) - 1] = ErrLength
    /\ f.buf # <<>>
    /\ f.isEncoded

(***************************************************************************)
(* HeaderSpec: WriteHeader, damage to what it wrote, CheckHeader.          *)
(***************************************************************************)
Trails == SeqsUpTo({0, 255}, MaxTrail)

\* The byte string bs with bit k flipped (bit 0 is the low bit of byte 0).
FlipBit(bs, k) ==
    [bs EXCEPT ![(k \div 8) + 1] =
        IF (@ \div (2 ^ (k % 8))) % 2 = 1
        THEN @ - 2 ^ (k % 8) ELSE @ + 2 ^ (k % 8)]

\* WriteHeader(w) on an empty file; the rest of the file follows.
CallWriteHeader ==
    /\ ret.op = "none"
    /\ \E t \in Trails : arg' = WriteHeader(<<>>) \o t
    /\ ret' = [op |-> "WriteHeader"]
    /\ UNCHANGED <<frameVars, cliVars>>

DamageBit ==
    /\ ret.op = "WriteHeader"
    /\ \E k \in 0..63 : arg' = FlipBit(arg, k)
    /\ ret' = [op |-> "Damage"]
    /\ UNCHANGED <<frameVars, cliVars>>

DamageCut ==
    /\ ret.op = "WriteHeader"
    /\ \E n \in 0..7 : arg' = Slice(arg, 0, n)
    /\ ret' = [op |-> "Damage"]
    /\ UNCHANGED <<frameVars, cliVars>>

CallCheckHeader ==
    /\ ret.op \in {"WriteHeader", "Damage"}
    /\ ret' = [op |-> "CheckHeader",
               err |-> CheckHeader(arg, 0).err,
               pos |-> CheckHeader(arg, 0).pos,
               was |-> ret.op]
    /\ UNCHANGED <<arg, frameVars, cliVars>>

HeaderNext ==
    \/ CallWriteHeader
    \/ DamageBit
    \/ DamageCut
    \/ CallCheckHeader

HeaderSpec == Init /\ [][HeaderNext]_vars

\* 0x73326d6d and 4, each as a little-endian int32.
GoodHeader == <<109, 109, 50, 115, 4, 0, 0, 0>>

\* C7: CheckHeader succeeds exactly when the first 8 bytes are Magic then
\* Ver, little-endian; it succeeds on what WriteHeader wrote, fails when a
\* bit of either integer differs, fails on fewer than 8 bytes, and reports a
\* wrong magic having read 4 bytes only.
C7_HeaderFidelity ==
    ret.op = "CheckHeader" =>
        /\ ret.err = "" <=> (Len(arg) >= 8 /\ Slice(arg, 0, 8) = GoodHeader)
        /\ ret.was = "WriteHeader" => ret.err = ""
        /\ Len(arg) < 8 => ret.err # ""
        /\ (Len(arg) >= 4 /\ Slice(arg, 0, 4) # Slice(GoodHeader, 0, 4))
            => (ret.err = "panic: Incorrect magic number" /\ ret.pos = 4)

\* C7 witness: one bit of the version differs and the check refuses it.
C7_Witness ==
    /\ ret.op = "CheckHeader"
    /\ Len(arg) >= 8
    /\ Slice(arg, 0, 4) = Slice(GoodHeader, 0, 4)
    /\ Slice(arg, 4, 8) = <<4, 0, 0, 128>>
    /\ ret.err = "panic: Incorrect version number"

(***************************************************************************)
(* SplitSpec: split, path.Base and the output names on bounded names.      *)
(***************************************************************************)
Save1 == <<"s", "a", "v", "e", "1">>
DotTxt == <<".", "t", "x", "t">>

NameParts ==
    {Save1, DotSav, DotJson, DotTxt, <<".">>, <<"a">>, <<"/">>,
     <<"_", "d", "a", "t", "a">>}

Names == {Concat(ps) : ps \in SeqsUpTo(NameParts, MaxParts)}

SplitInit ==
    /\ FrameInit
    /\ CliIdle
    /\ arg \in Names
    /\ ret = [op |-> "none"]

CallSplit ==
    /\ ret.op = "none"
    /\ ret' = [op |-> "split", v |-> split(arg)]
    /\ UNCHANGED <<arg, frameVars, cliVars>>

CallBase ==
    /\ ret.op = "none"
    /\ ret' = [op |-> "Base", v |-> Base(arg)]
    /\ UNCHANGED <<arg, frameVars, cliVars>>

CallUnpackNames ==
    /\ ret.op = "none"
    /\ ret' = [op |-> "unpack", v |-> UnpackNames(arg)]
    /\ UNCHANGED <<arg, frameVars, cliVars>>

CallPackName ==
    /\ ret.op = "none"
    /\ \E in \in {Save1 \o InfoSuffix, <<"a">> \o DotJson} :
        ret' = [op |-> "pack", in |-> in, v |-> PackName(in, arg)]
    /\ UNCHANGED <<arg, frameVars, cliVars>>

SplitNext ==
    \/ CallSplit
    \/ CallBase
    \/ CallUnpackNames
    \/ CallPackName

SplitSpec == SplitInit /\ [][SplitNext]_vars

HasSuffix(s, suf) ==
    /\ Len(s) >= Len(suf)
    /\ SubSeq(s, Len(s) - Len(suf) + 1, Len(s)) = suf

\* C6: split removes one trailing extension, and only when the text from the
\* last '.' to the end is ".sav" or ".json"; every other name comes back
\* unchanged ("a.json.txt" among them); unpack of save1.sav writes
\* save1_info.json and save1_data.json.
C6_BasenameRule ==
    /\ ret.op = "split" =>
        /\ HasSuffix(arg, DotSav) => ret.v = SubSeq(arg, 1, Len(arg) - 4)
        /\ HasSuffix(arg, DotJson) => ret.v = SubSeq(arg, 1, Len(arg) - 5)
        /\ (~HasSuffix(arg, DotSav) /\ ~HasSuffix(arg, DotJson)) => ret.v = arg
        /\ arg = <<"a", ".", "j", "s", "o", "n", ".", "t", "x", "t">>
            => ret.v = arg
    /\ (ret.op = "unpack" /\ arg = <<"s", "a", "v", "e", "1", ".", "s", "a", "v">>)
        => ret.v = << <<"s", "a", "v", "e", "1", "_", "i", "n", "f", "o",
                        ".", "j", "s", "o", "n">>,
                      <<"s", "a", "v", "e", "1", "_", "d", "a", "t", "a",
                        ".", "j", "s", "o", "n">> >>

\* C6 witness: of two trailing extensions split took the last one only.
C6_Witness ==
    /\ ret.op = "split"
    /\ arg = Save1 \o DotJson \o DotSav
    /\ ret.v = Save1 \o DotJson

(***************************************************************************)
(* CliSpec: runs of the mmse command over the files on disk.               *)
(***************************************************************************)
Foo == <<"f", "o", "o">>
FooInfoJson == Foo \o InfoSuffix
FooDataJson == Foo \o DataSuffix
FooDataSav == Foo \o <<"_", "d", "a", "t", "a">> \o DotSav
Save1Sav == Save1 \o DotSav

RunA3 == RunA \o RunA \o RunA

CliPayloads == {<<>>, JsonA, JsonB, RunA3}

\* A save file in the layout unpack reads, its blocks valid LZ4 blocks.
Container(pi, pd) ==
    WriteHeader(<<>>)
        \o Int32Bytes(Len(BlockTable[pi])) \o Int32Bytes(Len(pi))
        \o Int32Bytes(Len(BlockTable[pd])) \o Int32Bytes(Len(pd))
        \o BlockTable[pi] \o BlockTable[pd]

\* Save files found on disk: sound ones, cut ones, ones with a damaged header.
Containers ==
    {Container(JsonA, JsonB), Container(RunA3, JsonA)}
        \cup {Slice(Container(JsonA, JsonB), 0, n) : n \in {0, 6, 12, 20, 30, 39}}
        \cup {FlipBit(Container(JsonA, JsonB), k) : k \in {0, 32}}

JsonDisk(pi, pd) ==
    (FooInfoJson :> pi) @@ (FooDataJson :> pd)
        @@ (Save1Sav :> Container(JsonA, JsonB))

SavDisk(c) ==
    (FooInfoJson :> JsonA) @@ (FooDataJson :> RunA3) @@ (Save1Sav :> c)

\* The data JSON is missing.
InfoOnlyDisk == (FooInfoJson :> JsonA) @@ (Save1Sav :> Container(JsonA, JsonB))

Disks ==
    {JsonDisk(pi, pd) : pi \in CliPayloads, pd \in CliPayloads}
        \cup {SavDisk(c) : c \in Containers}
        \cup {InfoOnlyDisk}

ArgLists ==
    {<<>>, <<Save1Sav>>, <<FooDataSav>>, <<FooInfoJson, FooDataJson>>,
     <<Save1Sav, FooDataJson>>, <<Save1Sav, FooInfoJson, FooDataJson>>}

CliInit ==
    /\ FrameInit
    /\ FunInit
    /\ fs \in Disks
    /\ ProcIdle
    /\ runs = 0
    /\ packed = {}
    /\ fs0 = fs

\* The calls unpack makes once the save file is open, then the deferred Close.
UnpackOrder ==
    <<"CheckHeader", "ReadSizeInfo", "ReadSizeData", "WriteJSONInfo",
      "WriteJSONData", "defer">>

\* The calls of pack with each frame written right after its size prefix.
PackOrderInterleaved ==
    <<"WriteHeader", "ReadInfo", "WriteSizeInfo", "WriteFrameInfo", "ReadData",
      "WriteSizeData", "WriteFrameData", "defer">>

\* The calls pack makes once the save file is created, then the deferred Close.
PackOrder ==
    <<"WriteHeader", "ReadInfo", "WriteSizeInfo", "ReadData", "WriteSizeData",
      "WriteFrameInfo", "WriteFrameData", "defer">>

After(order, l) == order[1 + CHOOSE i \in 1..Len(order) : order[i] = l]

\* The step at pc ends: on to the next call, or log.Panicf(msg).
Proceed(order, msg) ==
    /\ pc' = IF msg = "" THEN After(order, pc) ELSE "defer"
    /\ status' = IF msg = "" THEN status ELSE msg

\* The operating system starts the command.
Run ==
    /\ pc = "idle"
    /\ runs < MaxRuns
    /\ \E a \in ArgLists : args' = a
    /\ pc' = "main"
    /\ status' = "running"
    /\ UNCHANGED <<fs, bn, file, rd, info, data, opened, printed, runs, packed>>
    /\ fs0' = fs
    /\ UNCHANGED <<frameVars, funVars>>

\* A main whose two-argument case prints its arguments and no more.
MainPrintOnly ==
    /\ pc = "main"
    /\ pc' = IF Len(args) = 1 THEN "unpack" ELSE "exit"
    /\ printed' = (Len(args) \notin {1, 2})
    /\ status' = IF Len(args) = 1 THEN status ELSE "ok"
    /\ UNCHANGED <<fs, args, bn, file, rd, info, data, opened, runs, packed>>
    /\ UNCHANGED <<frameVars, funVars, fs0>>

\* main: len(os.Args) is 1 + Len(args).
Main ==
    /\ pc = "main"
    /\ pc' = IF Len(args) = 1 THEN "unpack"
             ELSE IF Len(args) = 2 THEN "pack" ELSE "exit"
    /\ printed' = (Len(args) \notin {1, 2})
    /\ status' = IF Len(args) \in {1, 2} THEN status ELSE "ok"
    /\ UNCHANGED <<fs, args, bn, file, rd, info, data, opened, runs, packed>>
    /\ UNCHANGED <<frameVars, funVars, fs0>>

\* unpack: bn := split(path.Base(fn)); f, err := os.Open(fn); defer f.Close()
UnpackOpen ==
    /\ pc = "unpack"
    /\ bn' = split(Base(args[1]))
    /\ IF args[1] \in DOMAIN fs
       THEN /\ file' = args[1]
            /\ opened' = opened \cup {"f"}
            /\ pc' = UnpackOrder[1]
            /\ status' = status
       ELSE /\ pc' = "exit"
            /\ status' = "panic: Unable to open"
            /\ UNCHANGED <<file, opened>>
    /\ UNCHANGED <<fs, args, rd, info, data, printed, runs, packed>>
    /\ UNCHANGED <<frameVars, funVars, fs0>>

UnpackCheckHeader ==
    /\ pc = "CheckHeader"
    /\ rd' = CheckHeader(fs[file], rd).pos
    /\ Proceed(UnpackOrder, CheckHeader(fs[file], rd).err)
    /\ UNCHANGED <<fs, args, bn, file, info, data, opened, printed, runs, packed>>
    /\ UNCHANGED <<frameVars, funVars, fs0>>

UnpackReadSizeInfo ==
    /\ pc = "ReadSizeInfo"
    /\ info' = ReadSizeToFrame(fs[file], rd).f
    /\ rd' = ReadSizeToFrame(fs[file], rd).pos
    /\ Proceed(UnpackOrder, ReadSizeToFrame(fs[file], rd).err)
    /\ UNCHANGED <<fs, args, bn, file, data, opened, printed, runs, packed>>
    /\ UNCHANGED <<frameVars, funVars, fs0>>

UnpackReadSizeData ==
    /\ pc = "ReadSizeData"
    /\ data' = ReadSizeToFrame(fs[file], rd).f
    /\ rd' = ReadSizeToFrame(fs[file], rd).pos
    /\ Proceed(UnpackOrder, ReadSizeToFrame(fs[file], rd).err)
    /\ UNCHANGED <<fs, args, bn, file, info, opened, printed, runs, packed>>
    /\ UNCHANGED <<frameVars, funVars, fs0>>

\* ioutil.WriteFile(fn, bytes): the file is created or replaced.
WriteFile(disk, fn, bytes) == (fn :> bytes) @@ disk

\* mmse.WriteJSON(bn + "_info.json", f, info)
UnpackWriteJSONInfo ==
    /\ pc = "WriteJSONInfo"
    /\ info' = WriteJSON(fs[file], rd, info).f
    /\ rd' = WriteJSON(fs[file], rd, info).pos
    /\ fs' = IF WriteJSON(fs[file], rd, info).err = ""
             THEN WriteFile(fs, bn \o InfoSuffix, info'.buf) ELSE fs
    /\ Proceed(UnpackOrder, WriteJSON(fs[file], rd, info).err)
    /\ UNCHANGED <<args, bn, file, data, opened, printed, runs, packed>>
    /\ UNCHANGED <<frameVars, funVars, fs0>>

\* mmse.WriteJSON(bn + "_data.json", f, data)
UnpackWriteJSONData ==
    /\ pc = "WriteJSONData"
    /\ data' = WriteJSON(fs[file], rd, data).f
    /\ rd' = WriteJSON(fs[file], rd, data).pos
    /\ fs' = IF WriteJSON(fs[file], rd, data).err = ""
             THEN WriteFile(fs, bn \o DataSuffix, data'.buf) ELSE fs
    /\ Proceed(UnpackOrder, WriteJSON(fs[file], rd, data).err)
    /\ UNCHANGED <<args, bn, file, info, opened, printed, runs, packed>>
    /\ UNCHANGED <<frameVars, funVars, fs0>>

\* pack: bn := split(path.Base(dn)); f, err := os.Create(bn + ".sav"), in a
\* working directory that can be written; defer f.Close()
PackCreate ==
    /\ pc = "pack"
    /\ bn' = split(Base(args[2]))
    /\ file' = PackName(args[1], args[2])
    /\ fs' = WriteFile(fs, file', <<>>)
    /\ opened' = opened \cup {"f"}
    /\ packed' = {r \in packed : r.sav # file'}
    /\ pc' = PackOrder[1]
    /\ UNCHANGED <<args, status, rd, info, data, printed, runs>>
    /\ UNCHANGED <<frameVars, funVars, fs0>>

PackWriteHeader ==
    /\ pc = "WriteHeader"
    /\ fs' = [fs EXCEPT ![file] = WriteHeader(@)]
    /\ Proceed(PackOrder, "")
    /\ UNCHANGED <<args, bn, file, rd, info, data, opened, printed, runs, packed>>
    /\ UNCHANGED <<frameVars, funVars, fs0>>

\* What mmse.ReadJSONToFrame(fn) returns: [f, err]; fn is never closed.
LoadJSON(fn) ==
    IF fn \in DOMAIN fs THEN ReadJSONToFrame(fs[fn])
    ELSE [f |-> NewFrame, err |-> "panic: Unable to open json file"]

PackReadInfo ==
    /\ pc = "ReadInfo"
    /\ info' = LoadJSON(args[1]).f
    /\ opened' = IF args[1] \in DOMAIN fs THEN opened \cup {"r_info"} ELSE opened
    /\ Proceed(PackOrder, LoadJSON(args[1]).err)
    /\ UNCHANGED <<fs, args, bn, file, rd, data, printed, runs, packed>>
    /\ UNCHANGED <<frameVars, funVars, fs0>>

PackReadData ==
    /\ pc = "ReadData"
    /\ data' = LoadJSON(args[2]).f
    /\ opened' = IF args[2] \in DOMAIN fs THEN opened \cup {"r_data"} ELSE opened
    /\ Proceed(PackOrder, LoadJSON(args[2]).err)
    /\ UNCHANGED <<fs, args, bn, file, rd, info, printed, runs, packed>>
    /\ UNCHANGED <<frameVars, funVars, fs0>>

PackWriteSizeInfo ==
    /\ pc = "WriteSizeInfo"
    /\ fs' = [fs EXCEPT ![file] = WriteSize(@, info)]
    /\ Proceed(PackOrder, "")
    /\ UNCHANGED <<args, bn, file, rd, info, data, opened, printed, runs, packed>>
    /\ UNCHANGED <<frameVars, funVars, fs0>>

PackWriteSizeData ==
    /\ pc = "WriteSizeData"
    /\ fs' = [fs EXCEPT ![file] = WriteSize(@, data)]
    /\ Proceed(PackOrder, "")
    /\ UNCHANGED <<args, bn, file, rd, info, data, opened, printed, runs, packed>>
    /\ UNCHANGED <<frameVars, funVars, fs0>>

PackWriteFrameInfo ==
    /\ pc = "WriteFrameInfo"
    /\ fs' = [fs EXCEPT ![file] = WriteFrame(@, info).out]
    /\ info' = WriteFrame(fs[file], info).f
    /\ Proceed(PackOrder, "")
    /\ UNCHANGED <<args, bn, file, rd, data, opened, printed, runs, packed>>
    /\ UNCHANGED <<frameVars, funVars, fs0>>

PackWriteFrameData ==
    /\ pc = "WriteFrameData"
    /\ fs' = [fs EXCEPT ![file] = WriteFrame(@, data).out]
    /\ data' = WriteFrame(fs[file], data).f
    /\ Proceed(PackOrder, "")
    /\ UNCHANGED <<args, bn, file, rd, info, opened, printed, runs, packed>>
    /\ UNCHANGED <<frameVars, funVars, fs0>>

\* The deferred f.Close() runs on return and on panic alike.
DeferClose ==
    /\ pc = "defer"
    /\ opened' = opened \ {"f"}
    /\ status' = IF status = "running" THEN "ok" ELSE status
    /\ packed' = IF Len(args) = 2 /\ status = "running"
                 THEN packed \cup {[sav |-> file, info |-> fs[args[1]],
                                    data |-> fs[args[2]]]}
                 ELSE packed
    /\ pc' = "exit"
    /\ UNCHANGED <<fs, args, bn, file, rd, info, data, printed, runs>>
    /\ UNCHANGED <<frameVars, funVars, fs0>>

\* The process ends; the files stay.
Exit ==
    /\ pc = "exit"
    /\ args' = <<>>
    /\ pc' = "idle"
    /\ status' = ""
    /\ bn' = <<>>
    /\ file' = <<>>
    /\ rd' = 0
    /\ info' = NewFrame
    /\ data' = NewFrame
    /\ opened' = {}
    /\ printed' = FALSE
    /\ runs' = runs + 1
    /\ UNCHANGED <<fs, packed>>
    /\ fs0' = fs
    /\ UNCHANGED <<frameVars, funVars>>

CliNext ==
    \/ Run
    \/ Main
    \/ UnpackOpen
    \/ UnpackCheckHeader
    \/ UnpackReadSizeInfo
    \/ UnpackReadSizeData
    \/ UnpackWriteJSONInfo
    \/ UnpackWriteJSONData
    \/ PackCreate
    \/ PackWriteHeader
    \/ PackReadInfo
    \/ PackWriteSizeInfo
    \/ PackReadData
    \/ PackWriteSizeData
    \/ PackWriteFrameInfo
    \/ PackWriteFrameData
    \/ DeferClose
    \/ Exit

CliSpec == CliInit /\ [][CliNext]_vars

(***************************************************************************)
(* Claims about the command, checked under CliSpec.                        *)
(***************************************************************************)
\* A pack whose two inputs exist has run to its end.
PackEnded ==
    /\ pc = "exit"
    /\ Len(args) = 2
    /\ args[1] \in DOMAIN fs
    /\ args[2] \in DOMAIN fs

\* An unpack of a container that a finished pack left has run to its end.
UnpackOfPackedEnded ==
    /\ pc = "exit"
    /\ Len(args) = 1
    /\ \E r \in packed : r.sav = args[1]

\* C3: for any two input payloads, pack on them succeeds, unpack on the
\* container pack produced succeeds, and the info JSON and data JSON that
\* unpack writes hold the bytes of the original info and data.
C3_EndToEnd ==
    /\ PackEnded => status = "ok"
    /\ UnpackOfPackedEnded =>
        /\ status = "ok"
        /\ \A r \in packed : r.sav = args[1] =>
            /\ UnpackNames(args[1])[1] \in DOMAIN fs
            /\ UnpackNames(args[1])[2] \in DOMAIN fs
            /\ fs[UnpackNames(args[1])[1]] = r.info
            /\ fs[UnpackNames(args[1])[2]] = r.data

\* The frames pack loaded from its two inputs, as WriteSize found them.
InfoLoaded == ReadJSONToFrame(fs[args[1]]).f

DataLoaded == ReadJSONToFrame(fs[args[2]]).f

SizePrefix(fr) == Int32Bytes(fr.SizeCom) \o Int32Bytes(fr.SizeRaw)

\* C4, as stated: the stream pack writes is magic, version, the info size
\* prefix, the info bytes, the data size prefix, the data bytes.
C4_Interleaved ==
    (PackEnded /\ status = "ok") =>
        fs[file] = GoodHeader \o SizePrefix(InfoLoaded) \o InfoLoaded.buf
                       \o SizePrefix(DataLoaded) \o DataLoaded.buf

\* C4, amended: the stream pack writes is magic, version, the info size
\* prefix, the data size prefix, the info bytes, the data bytes, each integer
\* 4 bytes little-endian: both size prefixes precede both payloads.
C4_Layout ==
    (PackEnded /\ status = "ok") =>
        /\ fs[file] = GoodHeader \o SizePrefix(InfoLoaded) \o SizePrefix(DataLoaded)
                          \o InfoLoaded.buf \o DataLoaded.buf
        /\ Len(InfoLoaded.buf) = InfoLoaded.SizeCom
        /\ Len(DataLoaded.buf) = DataLoaded.SizeCom
        /\ Len(fs[file]) = 24 + InfoLoaded.SizeCom + DataLoaded.SizeCom

\* C4 witness: a pack of two non-empty payloads, the first one compressed,
\* has written its container.
C4_Witness ==
    /\ PackEnded
    /\ status = "ok"
    /\ fs[args[1]] = RunA3
    /\ fs[args[2]] = JsonB
    /\ InfoLoaded.SizeCom < 24
    /\ Slice(fs[file], 8, 24)
        = <<InfoLoaded.SizeCom, 0, 0, 0, 24, 0, 0, 0, 7, 0, 0, 0, 7, 0, 0, 0>>

\* pack has created its output file.
PackCreated == Len(args) = 2 /\ pc \notin {"idle", "main", "pack"}

\* C5, as stated: the file pack creates is named from the data path, and for
\* foo_info.json and foo_data.json it is foo.sav.
C5_FooSav ==
    (PackCreated /\ args = <<FooInfoJson, FooDataJson>>) =>
        /\ file = <<"f", "o", "o", ".", "s", "a", "v">>
        /\ file \in DOMAIN fs

\* C5, amended: the file pack creates is named base + ".sav" where base is
\* the data path without its ".json" or ".sav"; the info path plays no part;
\* for foo_info.json and foo_data.json the file is foo_data.sav.
C5_PackOutputName ==
    PackCreated =>
        /\ file \in DOMAIN fs
        /\ HasSuffix(args[2], DotJson) =>
            file = SubSeq(args[2], 1, Len(args[2]) - 5) \o DotSav
        /\ args[2] = <<"f", "o", "o", "_", "d", "a", "t", "a",
                       ".", "j", "s", "o", "n">>
            => file = <<"f", "o", "o", "_", "d", "a", "t", "a",
                        ".", "s", "a", "v">>

\* C5 witness: pack of foo_info.json and foo_data.json has ended and
\* foo_data.sav is on disk, foo.sav is not.
C5_Witness ==
    /\ PackEnded
    /\ status = "ok"
    /\ args = <<FooInfoJson, FooDataJson>>
    /\ FooDataSav \in DOMAIN fs
    /\ Foo \o DotSav \notin DOMAIN fs

\* C11: every file handle opened during a pack or an unpack (the container
\* and, in pack, the two JSON files ReadJSONToFrame opens) is closed by the
\* time the call exits, with or without a failure.
C11_ResourceRelease == pc = "exit" => opened = {}

IsPrefix(a, b) == Len(a) <= Len(b) /\ a = SubSeq(b, 1, Len(a))

\* C12: pack loads and encodes both JSON files before it creates or writes
\* the container: whenever the container exists both frames are loaded; what
\* is written is the header, the two size prefixes, the two payloads, in
\* that order.
C12_LoadBeforeWrite ==
    PackCreated =>
        /\ args[1] \in DOMAIN fs0
        /\ args[2] \in DOMAIN fs0
        /\ info.SizeRaw = Len(fs0[args[1]])
        /\ data.SizeRaw = Len(fs0[args[2]])
        /\ IsPrefix(fs[file],
                    GoodHeader \o SizePrefix(InfoLoaded) \o SizePrefix(DataLoaded)
                        \o InfoLoaded.buf \o DataLoaded.buf)

\* C13: an unpack that fails at any step has written no output JSON file; a
\* failure on the data payload leaves no info JSON behind.
C13_UnpackAllOrNothing ==
    (pc = "exit" /\ Len(args) = 1 /\ status # "ok") => fs = fs0

PayloadBytes == Len(fs[file]) - 24

\* C15: WriteJSON takes exactly SizeCom bytes from the reader, which is left
\* at the first byte after them; with fewer than SizeCom bytes to read it
\* fails and writes no file; the file it writes holds the decoded bytes.
C15_ExactPayloadRead ==
    (Len(args) = 1 /\ file \in DOMAIN fs) =>
        /\ pc = "WriteJSONData" =>
            /\ rd = 24 + info.SizeCom
            /\ fs[bn \o InfoSuffix] = info.buf
            /\ Len(info.buf) = info.SizeRaw
            /\ \A pi \in {JsonA, RunA3} :
                Slice(fs[file], 24, rd) = BlockTable[pi]
                    => fs[bn \o InfoSuffix] = pi
        /\ (pc = "exit" /\ status = "ok") =>
            /\ rd = 24 + info.SizeCom + data.SizeCom
            /\ fs[bn \o DataSuffix] = data.buf
            /\ \A pi \in {JsonA, RunA3}, pd \in {JsonA, JsonB} :
                fs[file] = Container(pi, pd) => fs[bn \o DataSuffix] = pd
        /\ (pc = "exit" /\ PayloadBytes >= 0 /\ info.isEncoded
                /\ info.SizeCom > PayloadBytes) =>
            /\ status = "panic: Unable to read file"
            /\ fs = fs0
        /\ (pc = "exit" /\ PayloadBytes >= 0 /\ ~info.isEncoded /\ data.isEncoded
                /\ info.SizeCom + data.SizeCom > PayloadBytes) =>
            /\ status = "panic: Unable to read file"
            /\ bn \o DataSuffix \notin DOMAIN fs

\* C15 witness: a sound container read to its last byte.
C15_Witness ==
    /\ pc = "exit"
    /\ Len(args) = 1
    /\ status = "ok"
    /\ fs[file] = Container(RunA3, JsonA)
    /\ rd = Len(fs[file])
    /\ fs[bn \o DataSuffix] = JsonA

(***************************************************************************)
(* IntSpec: WriteInt32 and ReadInt32 on writers and readers that may fail  *)
(* and readers that deliver a few bytes at a time.                         *)
(***************************************************************************)
MinInt32 == -2147483647 - 1

Int32Samples ==
    {0, 1, 4, 7, 255, 256, 65536, 16777216, 2147483647, -1, -2, -256,
     MinInt32, Magic}

\* A reader: the bytes of its source, the position reached, the most bytes
\* one Read delivers, and the error every Read returns ("" for none).
\* The bytes one Read puts into a buffer with room for `room` bytes.
ReadCount(r, room) ==
    IF Len(r.data) - r.pos < r.chunk
    THEN (IF Len(r.data) - r.pos < room THEN Len(r.data) - r.pos ELSE room)
    ELSE (IF r.chunk < room THEN r.chunk ELSE room)

\* io.ReadFull(r, buf) as binary.Read calls it: [bytes, err, pos].  It
\* calls Read until the buffer is full or a Read returns an error; the end
\* of the source is EOF before the first byte, unexpected EOF after it.
RECURSIVE ReadFull(_, _, _)
ReadFull(r, got, want) ==
    IF Len(got) = want THEN [bytes |-> got, err |-> "", pos |-> r.pos]
    ELSE IF r.err # "" THEN [bytes |-> got, err |-> r.err, pos |-> r.pos]
    ELSE IF r.pos >= Len(r.data)
    THEN [bytes |-> got,
          err |-> IF got = <<>> THEN "EOF" ELSE "unexpected EOF",
          pos |-> r.pos]
    ELSE ReadFull([r EXCEPT !.pos = @ + ReadCount(r, want - Len(got))],
                  got \o Slice(r.data, r.pos,
                               r.pos + ReadCount(r, want - Len(got))),
                  want)

\* ReadInt32(r) on such a reader: [v, err, pos].
ReadInt32From(r) ==
    IF ReadFull(r, <<>>, 4).err # ""
    THEN [v |-> 0, err |-> ReadFull(r, <<>>, 4).err, pos |-> ReadFull(r, <<>>, 4).pos]
    ELSE [v |-> Int32Of(ReadFull(r, <<>>, 4).bytes), err |-> "",
          pos |-> ReadFull(r, <<>>, 4).pos]

\* WriteInt32(w, v) on a writer whose Write returns werr: [out, err].
WriteInt32To(out, werr, v) ==
    IF werr # "" THEN [out |-> out, err |-> werr]
    ELSE [out |-> WriteInt32(out, v), err |-> ""]

CallWriteInt32 ==
    /\ ret.op = "none"
    /\ \E v \in Int32Samples, werr \in {"", "custom write error"} :
        /\ arg' = WriteInt32To(<<>>, werr, v).out
        /\ ret' = [op |-> "WriteInt32", v |-> v, werr |-> werr,
                   err |-> WriteInt32To(<<>>, werr, v).err]
    /\ UNCHANGED <<frameVars, cliVars>>

CallReadInt32 ==
    /\ ret.op = "WriteInt32"
    /\ ret.err = ""
    /\ \E cut \in 0..4, chunk \in 1..4, rerr \in {"", "custom read error"} :
        ret' = [op |-> "ReadInt32", sent |-> ret.v, cut |-> cut, rerr |-> rerr,
                chunk |-> chunk,
                v |-> ReadInt32From([data |-> Slice(arg, 0, cut), pos |-> 0,
                                     chunk |-> chunk, err |-> rerr]).v,
                err |-> ReadInt32From([data |-> Slice(arg, 0, cut), pos |-> 0,
                                       chunk |-> chunk, err |-> rerr]).err,
                whole |-> ReadInt32(Slice(arg, 0, cut), 0)]
    /\ UNCHANGED <<arg, frameVars, cliVars>>

IntNext ==
    \/ CallWriteInt32
    \/ CallReadInt32

IntSpec == Init /\ [][IntNext]_vars

\* C18: WriteInt32 emits 4 bytes, least-significant first, for every int32,
\* the negative ones and the maximum among them; ReadInt32 of those bytes
\* returns the value, however few bytes a Read delivers; ReadInt32 on fewer
\* than 4 bytes or on a reader error returns 0 and an error; WriteInt32
\* returns the writer's error.
C18_IntegerCodec ==
    /\ (ret.op = "WriteInt32" /\ ret.werr = "") =>
        /\ ret.err = ""
        /\ Len(arg) = 4
        /\ \A i \in 1..4 : arg[i] \in 0..255
        /\ ret.v \in 0..255 => arg = <<ret.v, 0, 0, 0>>
        /\ ret.v = 256 => arg = <<0, 1, 0, 0>>
        /\ ret.v = 2147483647 => arg = <<255, 255, 255, 127>>
        /\ ret.v = -1 => arg = <<255, 255, 255, 255>>
        /\ ret.v = -256 => arg = <<0, 255, 255, 255>>
        /\ ret.v = MinInt32 => arg = <<0, 0, 0, 128>>
        /\ ret.v = Magic => arg = <<109, 109, 50, 115>>
    /\ (ret.op = "WriteInt32" /\ ret.werr # "") =>
        /\ ret.err = ret.werr
        /\ arg = <<>>
    /\ ret.op = "ReadInt32" =>
        /\ (ret.cut = 4 /\ ret.rerr = "") => (ret.v = ret.sent /\ ret.err = "")
        /\ (ret.cut < 4 \/ ret.rerr # "") => (ret.v = 0 /\ ret.err # "")
        /\ ret.rerr # "" => ret.err = ret.rerr
        /\ ret.rerr = "" => (ret.whole.v = ret.v /\ ret.whole.err = ret.err)

\* C18 witness: the least int32 written and read back a byte at a time.
C18_Witness ==
    /\ ret.op = "ReadInt32"
    /\ ret.sent = MinInt32
    /\ arg = <<0, 0, 0, 128>>
    /\ ret.cut = 4
    /\ ret.chunk = 1
    /\ ret.v = MinInt32
    /\ ret.err = ""

(***************************************************************************)
(* SizeSpec: WriteSize of a frame, then ReadSizeToFrame of what it wrote,  *)
(* whole or cut short.                                                     *)
(***************************************************************************)
SizeSamples == {0, 1, 100, 500, 1000, 2000, 65536, 2147483647, -1, MinInt32}

\* A frame with the sizes sc and sr, raw or encoded, its buffer empty or not.
SetUpSizes ==
    /\ ret.op = "none"
    /\ \E sc \in SizeSamples, sr \in SizeSamples, enc \in BOOLEAN,
          b \in {<<>>, JsonA} :
        f' = [NewFrame EXCEPT !.SizeCom = sc, !.SizeRaw = sr,
                              !.isEncoded = enc, !.buf = b]
    /\ ret' = [op |-> "SetUp"]
    /\ UNCHANGED <<prev, ops, errs, raw, arg, cliVars>>

\* WriteSize(w, f) on an empty buffer, followed by what pack or a test
\* writes next.
CallWriteSize ==
    /\ ret.op = "SetUp"
    /\ \E trail \in Trails :
        /\ arg' = WriteSize(<<>>, f) \o trail
        /\ ret' = [op |-> "WriteSize", trail |-> trail]
    /\ prev' = f
    /\ UNCHANGED <<f, ops, errs, raw, cliVars>>

\* ReadSizeToFrame(r) on the first cut bytes of what was written, and Decode
\* on the frame it returned where the raw size is small enough to allocate.
CallReadSize ==
    /\ ret.op = "WriteSize"
    /\ \E cut \in 0..Len(arg) :
        ret' = [op |-> "ReadSizeToFrame", cut |-> cut,
                f |-> ReadSizeToFrame(Slice(arg, 0, cut), 0).f,
                err |-> ReadSizeToFrame(Slice(arg, 0, cut), 0).err,
                pos |-> ReadSizeToFrame(Slice(arg, 0, cut), 0).pos,
                dec |-> IF ReadSizeToFrame(Slice(arg, 0, cut), 0).f.SizeRaw <= 1000
                        THEN Decode(ReadSizeToFrame(Slice(arg, 0, cut), 0).f).err
                        ELSE "not called"]
    /\ UNCHANGED <<arg, frameVars, cliVars>>

SizeNext ==
    \/ SetUpSizes
    \/ CallWriteSize
    \/ CallReadSize

SizeSpec == Init /\ [][SizeNext]_vars

\* C17: WriteSize writes 8 bytes and leaves the frame as it was;
\* ReadSizeToFrame of 8 bytes or more consumes 8, returns an encoded frame
\* with an empty buffer, SizeCom the first int32 and SizeRaw the second,
\* which are the sizes WriteSize was given; on fewer than 8 bytes it fails.
C17_SizePrefixRoundTrip ==
    /\ ret.op = "WriteSize" =>
        /\ f = prev
        /\ Len(arg) = 8 + Len(ret.trail)
    /\ (ret.op = "ReadSizeToFrame" /\ ret.cut >= 8) =>
        /\ ret.err = ""
        /\ ret.pos = 8
        /\ ret.f.SizeCom = Int32Of(Slice(arg, 0, 4))
        /\ ret.f.SizeRaw = Int32Of(Slice(arg, 4, 8))
        /\ ret.f.SizeCom = f.SizeCom
        /\ ret.f.SizeRaw = f.SizeRaw
        /\ ret.f.buf = <<>>
        /\ ret.f.isEncoded
        /\ ret.dec # ErrNotEncoded
        /\ f = prev
    /\ (ret.op = "ReadSizeToFrame" /\ ret.f.SizeCom = 1000 /\ ret.f.SizeRaw = 500) =>
        ret.dec \in {ErrInvalidSource, ErrLength}
    /\ (ret.op = "ReadSizeToFrame" /\ ret.cut < 8) =>
        /\ ret.err # ""
        /\ ret.cut < 4 => ret.err = "panic: Unable to read encoded size"
        /\ ret.cut >= 4 => ret.err = "panic: Unable to read unencoded size"

\* C17 witness: sizes 1000 and 2000 written by a raw frame and read back.
C17_Witness ==
    /\ ret.op = "ReadSizeToFrame"
    /\ ret.err = ""
    /\ ~f.isEncoded
    /\ f.SizeCom = 1000
    /\ f.SizeRaw = 2000
    /\ ret.f.SizeCom = 1000
    /\ ret.f.SizeRaw = 2000
    /\ ret.pos = 8
    /\ ret.dec = "not called"

(***************************************************************************)
(* WriteFrameSpec: a frame set up raw and encoded, or loaded by            *)
(* ReadJSONToFrame, then WriteSize and WriteFrame on one output, arg.      *)
(***************************************************************************)
\* WriteSize(w, f) on the output.
CallWriteSizeOut ==
    /\ ops # <<>>
    /\ Len(ops) < MaxCalls
    /\ arg' = WriteSize(arg, f)
    /\ ret' = [op |-> "WriteSize", before |-> arg]
    /\ f' = f
    /\ prev' = f
    /\ ops' = Append(ops, "WriteSize")
    /\ errs' = Append(errs, "")
    /\ UNCHANGED <<raw, cliVars>>

\* WriteFrame(w, f) on the output.
CallWriteFrame ==
    /\ ops # <<>>
    /\ Len(ops) < MaxCalls
    /\ arg' = WriteFrame(arg, f).out
    /\ ret' = [op |-> "WriteFrame", before |-> arg]
    /\ f' = WriteFrame(arg, f).f
    /\ prev' = f
    /\ ops' = Append(ops, "WriteFrame")
    /\ errs' = Append(errs, "")
    /\ UNCHANGED <<raw, cliVars>>

WriteFrameNext ==
    \/ SetUpRaw
    \/ CallEncode
    \/ CallReadJSONToFrame
    \/ CallWriteSizeOut
    \/ CallWriteFrame

WriteFrameSpec == Init /\ [][WriteFrameNext]_vars

\* C20: WriteFrame appends the frame's buffered bytes to the output and
\* leaves the buffer empty and SizeCom, SizeRaw as they were; right after a
\* successful Encode or load those are SizeCom bytes; a second WriteFrame
\* appends nothing; and in pack's order (load, WriteSize, WriteFrame) the
\* compressed size written is the number of bytes that follow it.
C20_WriteFrameDrains ==
    /\ LastOp = "WriteFrame" =>
        /\ arg = ret.before \o prev.buf
        /\ f.buf = <<>>
        /\ f.SizeCom = prev.SizeCom
        /\ f.SizeRaw = prev.SizeRaw
        /\ f.isEncoded = prev.isEncoded
    /\ \A n \in 2..Len(ops) :
        (/\ n = Len(ops)
         /\ ops[n] = "WriteFrame"
         /\ ops[n - 1] \in {"Encode", "ReadJSONToFrame"}
         /\ errs[n - 1] = "")
        => Len(arg) - Len(ret.before) = f.SizeCom
    /\ \A n \in 2..Len(ops) :
        (/\ n = Len(ops)
         /\ ops[n] = "WriteFrame"
         /\ ops[n - 1] = "WriteFrame")
        => arg = ret.before
    /\ (/\ Len(ops) = 3
        /\ ops[1] = "ReadJSONToFrame"
        /\ errs[1] = ""
        /\ ops[2] = "WriteSize"
        /\ ops[3] = "WriteFrame")
       => /\ Len(arg) = 8 + Int32Of(Slice(arg, 0, 4))
          /\ Int32Of(Slice(arg, 0, 4)) = f.SizeCom
          /\ Int32Of(Slice(arg, 4, 8)) = Len(raw)

\* C20 witness: a frame with bytes in its buffer written twice; the first
\* WriteFrame emitted them, the second nothing.
C20_Witness ==
    /\ Len(ops) >= 3
    /\ ops[Len(ops)] = "WriteFrame"
    /\ ops[Len(ops) - 1] = "WriteFrame"
    /\ ops[Len(ops) - 2] = "Encode"
    /\ errs[Len(ops) - 2] = ""
    /\ f.SizeCom > 0
    /\ Len(arg) = f.SizeCom
    /\ arg = ret.before
    /\ f.buf = <<>>
====
